---- MODULE Spec2Model ----
(***************************************************************************)
(* Model of educelab/pgs-recon, dependencies/utilities:                    *)
(*   RANSAC.hpp          the generic RANSAC engine                         *)
(*   global_scaler.cpp   Triangulate / EvalTriangulate / TriangulateRansac *)
(*                       and the scale estimation of main                  *)
(*                                                                         *)
(* Numbers.  The program computes in IEEE doubles on 3-D points.  The      *)
(* model keeps the control flow and the IEEE special values (NaN, +-Inf)   *)
(* and replaces the scene by a 1-D one: a point is one coordinate, a       *)
(* pose is the camera centre on that line, a pixel is the camera-local     *)
(* coordinate at which the view saw the point.  Residuals are counted in   *)
(* hundredths, so the inlier threshold 0.1 is 10.                          *)
(***************************************************************************)
EXTENDS Integers, Sequences, FiniteSets, TLC

(***************************************************************************)
(* Bounds of the model                                                     *)
(***************************************************************************)
\* largest pixel value a detection reports; the pixel MaxPix is the horizon
MaxPix == 3
\* largest number of observations of one landmark
MaxObs == 3
\* nIters of RANSAC (1000 in TriangulateRansac), scaled down
nIters == 2
\* number of fit calls (RANSAC or direct) made one after the other
MaxCalls == 2
\* nIters of a RANSAC call long enough for an adaptive budget to end it
BudgetIters == 32

(***************************************************************************)
(* Program constants                                                       *)
(***************************************************************************)
\* constexpr double threshold = 0.1, in hundredths
threshold == 10
\* constexpr std::size_t nSamples = 2
nSamples == 2
\* if (obs.size() < 3): fewer observations are not triangulated
MinObs == 3

(***************************************************************************)
(* IEEE values: a finite number, NaN, +Inf or -Inf                         *)
(***************************************************************************)
Fin(n) == [k |-> "fin", v |-> n]
NaN == [k |-> "nan", v |-> 0]
PosInf == [k |-> "inf", v |-> 1]
NegInf == [k |-> "inf", v |-> -1]

IsFin(a) == a.k = "fin"
IsNaN(a) == a.k = "nan"
IsInf(a) == a.k = "inf"

Abs(n) == IF n < 0 THEN -n ELSE n
Sign(n) == IF n < 0 THEN -1 ELSE IF n > 0 THEN 1 ELSE 0
Min(a, b) == IF a < b THEN a ELSE b

\* a - n for a finite n
FSubInt(a, n) == IF IsFin(a) THEN Fin(a.v - n) ELSE a
\* n * a for a finite n: 0 * Inf is NaN
FMulInt(n, a) ==
  IF IsFin(a) THEN Fin(n * a.v)
  ELSE IF IsNaN(a) \/ n = 0 THEN NaN
  ELSE [k |-> "inf", v |-> Sign(n) * a.v]
\* a > 0.0: false for NaN
FPositive(a) == IF IsFin(a) THEN a.v > 0 ELSE IsInf(a) /\ a.v = 1
\* a < n for a finite n: false for NaN
FLessInt(a, n) == IF IsFin(a) THEN a.v < n ELSE IsInf(a) /\ a.v = -1
\* |a|
FAbs(a) == IF IsFin(a) THEN Fin(Abs(a.v)) ELSE IF IsNaN(a) THEN NaN ELSE PosInf
\* num / w of two integers: x/0 is +-Inf, 0/0 is NaN
FDivInt(num, w) ==
  IF w = 0 THEN (IF num = 0 THEN NaN ELSE [k |-> "inf", v |-> Sign(num)])
  ELSE Fin(num \div w)

(***************************************************************************)
(* The SfM scene (external store): views, poses, intrinsics               *)
(***************************************************************************)
\* the views of the scene, in the order of sfmData.views
Views == 1..3
Pixels == 0..MaxPix
\* sfmData.GetPoseOrDie(view): the camera centre of the view; the cameras
\* stand at two centres, in turn
PoseOf(v) == (v - 1) % 2
\* the view observation number n of a landmark comes from
ViewOf(n) == ((n - 1) % Cardinality(Views)) + 1
\* (*cam)(o): the bearing of a pixel, in the camera frame
Bearing(o) == o
\* RansacObservation{obs, pt, cam, pose} as main builds it for (viewID, o)
MakeObservation(v, o) ==
  [obs |-> o, pt |-> Bearing(o), cam |-> v, pose |-> PoseOf(v)]

\* geometry::Pose3::operator(): the point in the camera frame
PoseApply(pose, X) == FSubInt(X, pose)
\* ro.pt.dot(ro.pose(X)) > 0.0
Chirality(ro, X) == FPositive(FMulInt(ro.pt, PoseApply(ro.pose, X)))
\* one grid step of the scene, in hundredths: half the threshold
ResUnit == threshold \div 2
\* ro.cam->residual(ro.pose(X), ro.obs).norm()
Residual(ro, X) ==
  LET d == FAbs(FSubInt(PoseApply(ro.pose, X), ro.obs))
  IN  IF IsFin(d) THEN Fin(ResUnit * d.v) ELSE d

\* a ray through the horizon pixel is parallel to the scene
AtHorizon(ro) == ro.obs = MaxPix
RECURSIVE SumTargets(_)
SumTargets(x) ==
  IF x = <<>> THEN 0
  ELSE (IF AtHorizon(Head(x)) THEN Head(x).pose ELSE Head(x).pose + Head(x).obs)
       + SumTargets(Tail(x))
RECURSIVE SumWeights(_)
SumWeights(x) ==
  IF x = <<>> THEN 0
  ELSE (IF AtHorizon(Head(x)) THEN 0 ELSE 1) + SumWeights(Tail(x))
\* openMVG's TriangulateNViewAlgebraic: the homogeneous solution Xh of the
\* linear system of the rays.  A ray that meets the scene adds the point it
\* sees with weight 1; a ray parallel to the scene adds its centre with
\* weight 0, so Xh.w = 0 when every ray is parallel.
TriangulateNViewAlgebraic(x) ==
  [ok |-> TRUE, num |-> SumTargets(x), w |-> SumWeights(x)]
\* Xh.hnormalized()
hnormalized(Xh) == FDivInt(Xh.num, Xh.w)

(***************************************************************************)
(* Values an uninitialized Vec3 can hold (Eigen does not initialize): any  *)
(* double; here a point in front of every camera, NaN and +Inf             *)
(***************************************************************************)
Garbage == {Fin(MaxPix), NaN, PosInf}


(***************************************************************************)
(* RANSACResult (RANSAC.hpp).  fitness is the ratio n/d of two sizes;      *)
(* inlier_rmse = error / sqrt(n) is kept exactly, as its square num/den.   *)
(***************************************************************************)
Ratio(n, d) == [n |-> n, d |-> d]
RmseInf == [k |-> "inf", num |-> 0, den |-> 1]
\* error / std::sqrt(n)
RmseOf(error, n) == [k |-> "fin", num |-> error * error, den |-> n]
\* a > b on inlier_rmse values; INF > INF is false
RmseGreater(a, b) ==
  IF a.k = "inf" THEN b.k # "inf"
  ELSE b.k # "inf" /\ a.num * b.den > b.num * a.den
FitnessGreater(a, b) == a.n * b.d > b.n * a.d
FitnessEqual(a, b) == a.n * b.d = b.n * a.d
\* variant: fitness <= 1.
FitnessAtMostOne(a) == a.n <= a.d
\* fitness < 1.
FitnessBelowOne(a) == a.n < a.d
FitnessIsZero(a) == a.n = 0

\* RANSACResult{}: the member initializers
DefaultResult ==
  [error |-> PosInf, fitness |-> Ratio(0, 1), inliers |-> <<>>,
   inlier_rmse |-> RmseInf, success |-> FALSE]

(***************************************************************************)
(* Triangulate (global_scaler.cpp): the fit function.                      *)
(* junk is what the Vec3 of `return {false, {}}` holds, never initialized. *)
(* On an empty x the code evaluates pts[0] of an empty vector: undefined   *)
(* behaviour, whose outcome is (ub, junk).                                 *)
(***************************************************************************)
\* variant: only the first observation is tested
ChiralityLoopFirst(x, X) == x = <<>> \/ Chirality(Head(x), X)

RECURSIVE ChiralityLoop(_, _)
\* for (const auto &ro : x) { if (not chirality) return false } ; true
ChiralityLoop(x, X) ==
  IF x = <<>> THEN TRUE
  ELSE IF ~Chirality(Head(x), X) THEN FALSE
  ELSE ChiralityLoop(Tail(x), X)

\* variant: X.allFinite() is what is tested
hasNonFinite(X) == ~IsFin(X)

\* if (X.hasNaN()): NaN only, an infinite coordinate passes
hasNaN(X) == IsNaN(X)

Triangulate(x, junk, ub) ==
  IF x = <<>> THEN [success |-> ub, X |-> junk]
  ELSE LET Xh == TriangulateNViewAlgebraic(x)
           X == hnormalized(Xh)
       IN  IF ~Xh.ok THEN [success |-> FALSE, X |-> junk]
           ELSE IF hasNaN(X) THEN [success |-> FALSE, X |-> junk]
           ELSE IF ~ChiralityLoop(x, X) THEN [success |-> FALSE, X |-> junk]
           ELSE [success |-> TRUE, X |-> X]

(***************************************************************************)
(* EvalTriangulate (global_scaler.cpp): the evaluation function            *)
(***************************************************************************)
\* variant: err <= threshold
IsInlierLoose(err) == FLessInt(err, threshold + 1)

\* if (err < threshold)
IsInlier(err) == FLessInt(err, threshold)

RECURSIVE EvalLoop(_, _, _, _)
\* the for loop: acc = [error, inliers]; "bad" when a view fails chirality
EvalLoop(x, X, error, inliers) ==
  IF x = <<>> THEN [bad |-> FALSE, error |-> error, inliers |-> inliers]
  ELSE IF ~Chirality(Head(x), X)
       THEN [bad |-> TRUE, error |-> error, inliers |-> inliers]
  ELSE LET err == Residual(Head(x), X)
       IN  IF IsInlier(err)
           THEN EvalLoop(Tail(x), X, error + err.v, Append(inliers, Head(x)))
           ELSE EvalLoop(Tail(x), X, error, inliers)

RECURSIVE EvalLoopSkip(_, _, _, _)
EvalLoopSkip(x, X, error, inliers) ==
  IF x = <<>> THEN [bad |-> FALSE, error |-> error, inliers |-> inliers]
  ELSE LET err == Residual(Head(x), X)
       IN  IF Chirality(Head(x), X) /\ IsInlier(err)
           THEN EvalLoopSkip(Tail(x), X, error + err.v, Append(inliers, Head(x)))
           ELSE EvalLoopSkip(Tail(x), X, error, inliers)

\* variant: a view that fails chirality is skipped, not fatal
EvalTriangulateSkip(x, X) ==
  LET r == EvalLoopSkip(x, X, 0, <<>>)
      n == Len(r.inliers)
  IN  IF n > 0
      THEN [error |-> Fin(r.error), fitness |-> Ratio(n, Len(x)),
            inliers |-> r.inliers, inlier_rmse |-> RmseOf(r.error, n),
            success |-> TRUE]
      ELSE [error |-> Fin(r.error), fitness |-> Ratio(0, 1),
            inliers |-> r.inliers, inlier_rmse |-> RmseInf, success |-> TRUE]

\* variant: the sizes are divided as integers, without the static_cast
EvalTriangulateIntDiv(x, X) ==
  LET r == EvalLoop(x, X, 0, <<>>)
      n == Len(r.inliers)
  IN  IF r.bad THEN DefaultResult
      ELSE IF n > 0
           THEN [error |-> Fin(r.error), fitness |-> Ratio(n \div Len(x), 1),
                 inliers |-> r.inliers, inlier_rmse |-> RmseOf(r.error, n),
                 success |-> TRUE]
           ELSE [error |-> Fin(r.error), fitness |-> Ratio(0, 1),
                 inliers |-> r.inliers, inlier_rmse |-> RmseInf,
                 success |-> TRUE]

EvalTriangulate(x, X) ==
  LET r == EvalLoop(x, X, 0, <<>>)
      n == Len(r.inliers)
  IN  IF r.bad THEN DefaultResult
      ELSE IF n > 0
           THEN [error |-> Fin(r.error), fitness |-> Ratio(n, Len(x)),
                 inliers |-> r.inliers, inlier_rmse |-> RmseOf(r.error, n),
                 success |-> TRUE]
           ELSE [error |-> Fin(r.error), fitness |-> Ratio(0, 1),
                 inliers |-> r.inliers, inlier_rmse |-> RmseInf,
                 success |-> TRUE]

(***************************************************************************)
(* The generator: static std::mt19937 rng, here a full-period LCG          *)
(***************************************************************************)
RngStates == 0..3
RngNext(s) == (5 * s + 3) % Cardinality(RngStates)
\* rng.seed(seed.value())
RngSeed(seed) == seed % Cardinality(RngStates)

RECURSIVE SelectionSample(_, _, _, _)
\* std::sample into a back_inserter: selection sampling, one draw for each
\* element while some are still needed; the chosen keep their order
SelectionSample(n, k, need, s) ==
  IF need = 0 \/ k > n THEN [idx |-> <<>>, rng |-> s]
  ELSE LET unsampled == n - k + 1
           s1 == RngNext(s)
           take == (s1 % unsampled) < need
           rest == SelectionSample(n, k + 1, IF take THEN need - 1 ELSE need, s1)
       IN  [idx |-> IF take THEN <<k>> \o rest.idx ELSE rest.idx,
            rng |-> rest.rng]

RECURSIVE DrawEach(_, _, _)
\* n positions of 1..len, each drawn on its own
DrawEach(len, n, s) ==
  IF n = 0 THEN [idx |-> <<>>, rng |-> s]
  ELSE LET s1 == RngNext(s)
           rest == DrawEach(len, n - 1, s1)
       IN  [idx |-> <<(s1 % len) + 1>> \o rest.idx, rng |-> rest.rng]
\* variant: sampling with replacement
SampleWithReplacement(x, n, s) ==
  LET r == DrawEach(Len(x), n, s)
  IN  [samples |-> [j \in 1..Len(r.idx) |-> x[r.idx[j]]], idx |-> r.idx,
       rng |-> r.rng]
\* std::sample(begin(x), end(x), back_inserter(samples), nSamples, rng)
Sample(x, n, s) ==
  LET r == SelectionSample(Len(x), 1, Min(n, Len(x)), s)
  IN  [samples |-> [j \in 1..Len(r.idx) |-> x[r.idx[j]]], idx |-> r.idx,
       rng |-> r.rng]



(***************************************************************************)
(* RANSAC (RANSAC.hpp) as operators on the locals of one call              *)
(***************************************************************************)
\* `Model bestModel;` an Eigen vector that no one has written yet
Uninit == [k |-> "uninit", v |-> 0]
\* reading a model: one never written holds any value
ReadModel(m) == IF m = Uninit THEN Garbage ELSE {m}

NoFit == [called |-> FALSE, arg |-> <<>>, success |-> FALSE, X |-> NaN]
NoEval == [called |-> FALSE, X |-> NaN, result |-> DefaultResult]
NoRet == [model |-> NaN, result |-> DefaultResult]

\* T probability = 0.99999999 with T = float (the default, never deduced):
\* the nearest float is 1.0f, so log(1. - probability) is log(0.) = -Inf
LogOneMinusProbability == NegInf
\* log(1. - probability) / log(1. - pow(fitness, nSamples)) for a fitness
\* in (0, 1): the divisor is finite and negative
BudgetRatio(fitness) ==
  IF IsInf(LogOneMinusProbability)
  THEN [k |-> "inf", v |-> -LogOneMinusProbability.v]
  ELSE LogOneMinusProbability
\* breakIter = std::min(static_cast<double>(nIters), ratio)
AdaptiveBreakIter(fitness, n) ==
  LET r == BudgetRatio(fitness)
  IN  IF FLessInt(r, n) THEN r.v ELSE n

\* variant: a fitness that is not smaller is enough
ImprovedOrEqualFitness(result, best) ==
  ~FitnessGreater(best.fitness, result.fitness)
\* variant: on equal fitness the smaller inlier_rmse wins
ImprovedSmallerRMSE(result, best) ==
  \/ FitnessGreater(result.fitness, best.fitness)
  \/ /\ FitnessEqual(result.fitness, best.fitness)
     /\ RmseGreater(best.inlier_rmse, result.inlier_rmse)
\* improvedFitness or improvedRMSE
Improved(result, best) ==
  \/ FitnessGreater(result.fitness, best.fitness)
  \/ /\ FitnessEqual(result.fitness, best.fitness)
     /\ RmseGreater(result.inlier_rmse, best.inlier_rmse)

\* the locals when the loop starts, with the generator in state r and the
\* nIters argument n
LoopStart(r, n) ==
  [i |-> 0, nIters |-> n, breakIter |-> n, bestResult |-> DefaultResult,
   bestModel |-> Uninit, rng |-> r, accepted |-> FALSE, brk |-> FALSE,
   fit |-> NoFit, eval |-> NoEval]

\* variant: only `if (i > breakIter) break` ends the loop
LoopRunsToBreakIter(st) == ~st.brk /\ ~(st.i > st.breakIter)
\* for (i = 0; i < nIters; ++i) { if (i > breakIter) break; ... }
LoopRuns(st) == ~st.brk /\ st.i < st.nIters /\ ~(st.i > st.breakIter)

\* variant: without `if (not success) continue`, the model of a failed fit
\* is evaluated like any other
LoopBodyEvalAlways(xs, st) ==
  LET smp == Sample(xs, nSamples, st.rng)
      f == Triangulate(smp.samples, Uninit, FALSE)
      result == EvalTriangulate(xs, f.X)
      fitted == [called |-> TRUE, arg |-> smp.samples, success |-> f.success,
                 X |-> f.X]
      evaled == [called |-> TRUE, X |-> f.X, result |-> result]
  IN  IF ~result.success \/ ~Improved(result, st.bestResult)
      THEN [st EXCEPT !.i = @ + 1, !.rng = smp.rng, !.fit = fitted,
                      !.eval = evaled]
      ELSE IF FitnessBelowOne(result.fitness)
      THEN [st EXCEPT !.i = @ + 1, !.rng = smp.rng, !.fit = fitted,
                      !.eval = evaled, !.bestResult = result,
                      !.bestModel = f.X, !.accepted = TRUE,
                      !.breakIter = AdaptiveBreakIter(result.fitness, st.nIters)]
      ELSE [st EXCEPT !.rng = smp.rng, !.fit = fitted, !.eval = evaled,
                      !.bestResult = result, !.bestModel = f.X,
                      !.accepted = TRUE, !.brk = TRUE]
\* one pass through the body of the for loop.  The model of a failed fit is
\* dropped unread; the sample of a non-empty x is not empty.
LoopBody(xs, st) ==
  LET smp == Sample(xs, nSamples, st.rng)
      f == Triangulate(smp.samples, Uninit, FALSE)
      result == EvalTriangulate(xs, f.X)
      fitted == [called |-> TRUE, arg |-> smp.samples, success |-> f.success,
                 X |-> f.X]
      evaled == [called |-> TRUE, X |-> f.X, result |-> result]
  IN  IF ~f.success
      THEN [st EXCEPT !.i = @ + 1, !.rng = smp.rng, !.fit = fitted]
      ELSE IF ~result.success \/ ~Improved(result, st.bestResult)
      THEN [st EXCEPT !.i = @ + 1, !.rng = smp.rng, !.fit = fitted,
                      !.eval = evaled]
      ELSE IF FitnessBelowOne(result.fitness)
      THEN [st EXCEPT !.i = @ + 1, !.rng = smp.rng, !.fit = fitted,
                      !.eval = evaled, !.bestResult = result,
                      !.bestModel = f.X, !.accepted = TRUE,
                      !.breakIter = AdaptiveBreakIter(result.fitness, st.nIters)]
      ELSE [st EXCEPT !.rng = smp.rng, !.fit = fitted, !.eval = evaled,
                      !.bestResult = result, !.bestModel = f.X,
                      !.accepted = TRUE, !.brk = TRUE]

RECURSIVE RunLoop(_, _)
RunLoop(xs, st) == IF LoopRuns(st) THEN RunLoop(xs, LoopBody(xs, st)) ELSE st

\* variant: refit on the inliers first, then evaluate the refit model
FinalizeRefitFirst(xs, best, m, junk, ub) ==
  LET f == Triangulate(best.inliers, junk, ub)
      r == EvalTriangulate(xs, f.X)
  IN  [model |-> f.X, result |-> [r EXCEPT !.success = f.success],
       fit |-> [called |-> TRUE, arg |-> best.inliers, success |-> f.success,
                X |-> f.X],
       eval |-> [called |-> TRUE, X |-> f.X, result |-> r]]

\* variant: a failed refit keeps the best model of the loop
FinalizeKeepBest(xs, best, m, junk, ub) ==
  LET r == EvalTriangulate(xs, m)
      f == Triangulate(r.inliers, junk, ub)
  IN  [model |-> IF f.success THEN f.X ELSE m,
       result |-> [r EXCEPT !.success = f.success],
       fit |-> [called |-> TRUE, arg |-> r.inliers, success |-> f.success,
                X |-> f.X],
       eval |-> [called |-> TRUE, X |-> m, result |-> r]]

\* bestResult = eval(x, bestModel);
\* std::tie(bestResult.success, bestModel) = fit(bestResult.inliers);
\* m is what reading bestModel gave, best the bestResult of the loop
Finalize(xs, best, m, junk, ub) ==
  LET r == EvalTriangulate(xs, m)
      f == Triangulate(r.inliers, junk, ub)
  IN  [model |-> f.X, result |-> [r EXCEPT !.success = f.success],
       fit |-> [called |-> TRUE, arg |-> r.inliers, success |-> f.success,
                X |-> f.X],
       eval |-> [called |-> TRUE, X |-> m, result |-> r]]

\* constexpr std::uint_fast32_t seed = 0 of TriangulateRansac
RansacSeed == 0

\* TriangulateRansac: RANSAC(x, Triangulate, EvalTriangulate, nSamples,
\* nIters, seed) and {res.success, X}; m, junk, ub as in Finalize
TriangulateRansac(xs, m, junk, ub) ==
  LET st == RunLoop(xs, LoopStart(RngSeed(RansacSeed), nIters))
      fin == Finalize(xs, st.bestResult, m, junk, ub)
  IN  [success |-> fin.result.success, X |-> fin.model, rng |-> st.rng]
\* the bestModel the loop of TriangulateRansac(xs) ends with
RansacLoopModel(xs) == RunLoop(xs, LoopStart(RngSeed(RansacSeed), nIters)).bestModel


(***************************************************************************)
(* Landmarks and scale samples (global_scaler.cpp, main)                   *)
(***************************************************************************)
\* enum EXIT_CODE
SUCCESS == 0
NO_LDMS == 4
NO_SCALES == 5
\* no exit yet
Running == -1
\* terminated by an exception that nothing catches
UNCAUGHT == -2

\* the ArUco ids a detection can report, in ascending order
Markers == <<1, 2>>
\* a marker has four corners: TL, TR, BR, BL
NumCorners == 4

\* GetLandmarkID: std::to_string(arucoID) + "." + std::to_string(cornerID)
GetLandmarkID(arucoID, cornerID) ==
  ToString(arucoID) \o "." \o ToString(cornerID)

\* every key a run can create, in the order std::map<std::string, ...>
\* iterates: for one-digit ids the string order is (marker, corner)
AllKeys ==
  [n \in 1..(Len(Markers) * NumCorners) |->
     GetLandmarkID(Markers[((n - 1) \div NumCorners) + 1], (n - 1) % NumCorners)]
\* the keys of a map, in iteration order
KeysOf(lms) == SelectSeq(AllKeys, LAMBDA key : key \in DOMAIN lms)

\* std::optional<Vec3> X
NoX == [has |-> FALSE, value |-> NaN]
SomeX(X) == [has |-> TRUE, value |-> X]
\* Landmark{}: landmarks.insert({cornerID, {}}) leaves id empty
DefaultLandmark == [id |-> "", obs |-> <<>>, X |-> NoX]

\* a map with one more entry
MapPut(lms, key, ldm) ==
  [q \in (DOMAIN lms) \cup {key} |-> IF q = key THEN ldm ELSE lms[q]]
\* landmarks[key]: inserts a default landmark when the key is missing
MapIndex(lms, key) ==
  IF key \in DOMAIN lms THEN lms ELSE MapPut(lms, key, DefaultLandmark)

\* variant: a view adds to a landmark once only
AddObservationOncePerView(lms, key, viewID, corner) ==
  LET have == MapIndex(lms, key)
  IN  IF \E n \in 1..Len(have[key].obs) : have[key].obs[n][1] = viewID
      THEN have
      ELSE [have EXCEPT ![key].obs = Append(@, <<viewID, corner>>)]
\* if (landmarks.count(cornerID) == 0) insert; ldm->obs.emplace_back(...)
AddObservation(lms, key, viewID, corner) ==
  LET have == MapIndex(lms, key)
  IN  [have EXCEPT ![key].obs = Append(@, <<viewID, corner>>)]

RECURSIVE AddCorners(_, _, _, _, _)
\* for (int i = 0; i < corners.size(); i++)
AddCorners(lms, viewID, markerID, corners, i) ==
  IF i >= Len(corners) THEN lms
  ELSE AddCorners(
         AddObservation(lms, GetLandmarkID(markerID, i), viewID, corners[i + 1]),
         viewID, markerID, corners, i + 1)

RECURSIVE AddMarkers(_, _, _)
\* for (std::size_t idx = 0; idx < res.markerIds.size(); ++idx)
AddMarkers(lms, viewID, res) ==
  IF res = <<>> THEN lms
  ELSE AddMarkers(AddCorners(lms, viewID, Head(res).id, Head(res).corners, 0),
                  viewID, Tail(res))

\* the emplace_back calls one detection result causes, in program order:
\* marker after marker, corner after corner
Additions(viewID, res) ==
  [n \in 1..(Len(res) * NumCorners) |->
     LET marker == res[((n - 1) \div NumCorners) + 1]
         c == (n - 1) % NumCorners
     IN  [id |-> GetLandmarkID(marker.id, c), view |-> viewID,
          o |-> marker.corners[c + 1]]]

\* markerIDs.insert(markerID) for every marker of the result
MarkerIdsOf(res) == {res[n].id : n \in 1..Len(res)}

\* x.emplace_back(o, pt, cam, pose) for every (viewID, o) of the landmark
BuildX(obs) ==
  [n \in 1..Len(obs) |-> MakeObservation(obs[n][1], obs[n][2])]

(***************************************************************************)
(* Doubles of the scale estimation: exact fractions, NaN and +Inf          *)
(***************************************************************************)
RECURSIVE GCD(_, _)
GCD(a, b) == IF b = 0 THEN a ELSE GCD(b, a % b)
Q(num, den) ==
  LET g == GCD(Abs(num), den)
  IN  [k |-> "fin", num |-> num \div g, den |-> den \div g]
QNaN == [k |-> "nan", num |-> 0, den |-> 1]
QInf == [k |-> "inf", num |-> 1, den |-> 1]
QAdd(a, b) ==
  IF a.k = "nan" \/ b.k = "nan" THEN QNaN
  ELSE IF a.k = "inf" \/ b.k = "inf" THEN QInf
  ELSE Q(a.num * b.den + b.num * a.den, a.den * b.den)
\* a / n for a count n > 0
QDivInt(a, n) == IF a.k = "fin" THEN Q(a.num, a.den * n) ELSE a

\* a - b on points
FSub(a, b) ==
  IF IsNaN(a) \/ IsNaN(b) THEN NaN
  ELSE IF IsInf(a) THEN (IF IsInf(b) /\ b.v = a.v THEN NaN ELSE a)
  ELSE IF IsInf(b) THEN [k |-> "inf", v |-> -b.v]
  ELSE Fin(a.v - b.v)
\* (c1.value() - c0.value()).norm()
Distance(c1, c0) == FAbs(FSub(c1, c0))
\* distExpected / distObserved for a marker size > 0
ScaleRatio(size, dist) ==
  IF IsNaN(dist) THEN QNaN
  ELSE IF IsInf(dist) THEN Q(0, 1)
  ELSE IF dist.v = 0 THEN QInf
  ELSE Q(size, dist.v)

RECURSIVE MeasureEdgesOpen(_, _, _, _)
\* variant: the edge from the last corner back to the first is left out
MeasureEdgesOpen(acc, markerID, size, i) ==
  IF i >= NumCorners - 1 THEN acc
  ELSE LET nI == i + 1
           l0 == MapIndex(acc.landmarks, GetLandmarkID(markerID, i))
           l1 == MapIndex(l0, GetLandmarkID(markerID, nI))
           c0 == l1[GetLandmarkID(markerID, i)].X
           c1 == l1[GetLandmarkID(markerID, nI)].X
       IN  IF ~c0.has \/ ~c1.has
           THEN MeasureEdgesOpen([acc EXCEPT !.landmarks = l1], markerID, size,
                                 i + 1)
           ELSE MeasureEdgesOpen(
                  [landmarks |-> l1,
                   scales |-> Append(acc.scales,
                                ScaleRatio(size, Distance(c1.value, c0.value)))],
                  markerID, size, i + 1)

RECURSIVE MeasureEdges(_, _, _, _)
\* for (int i = 0; i < 4; i++): the edge from corner i to corner nI; both
\* corners are looked up with landmarks[...]
MeasureEdges(acc, markerID, size, i) ==
  IF i >= NumCorners THEN acc
  ELSE LET nI == IF i = 3 THEN 0 ELSE i + 1
           l0 == MapIndex(acc.landmarks, GetLandmarkID(markerID, i))
           l1 == MapIndex(l0, GetLandmarkID(markerID, nI))
           c0 == l1[GetLandmarkID(markerID, i)].X
           c1 == l1[GetLandmarkID(markerID, nI)].X
       IN  IF ~c0.has \/ ~c1.has
           THEN MeasureEdges([acc EXCEPT !.landmarks = l1], markerID, size, i + 1)
           ELSE MeasureEdges(
                  [landmarks |-> l1,
                   scales |-> Append(acc.scales,
                                ScaleRatio(size, Distance(c1.value, c0.value)))],
                  markerID, size, i + 1)

RECURSIVE MeasureMarkers(_, _, _, _)
\* for (const auto &markerID : markerIDs): a std::set, ascending
MeasureMarkers(acc, ids, size, n) ==
  IF n > Len(Markers) THEN acc
  ELSE IF Markers[n] \in ids
       THEN MeasureMarkers(MeasureEdges(acc, Markers[n], size, 0), ids, size, n + 1)
       ELSE MeasureMarkers(acc, ids, size, n + 1)

RECURSIVE Accumulate(_, _, _)
\* std::accumulate(scales.begin(), scales.end(), 0., a + b / scales.size())
Accumulate(q, a, n) ==
  IF q = <<>> THEN a ELSE Accumulate(Tail(q), QAdd(a, QDivInt(Head(q), n)), n)
\* variant: the terms are not divided by the count
MeanScaleSum(q) == Accumulate(q, Q(0, 1), 1)
MeanScale(q) == Accumulate(q, Q(0, 1), Len(q))

\* X.value() *= scale for a scale that is never negative; the product is
\* kept as a fraction
ScalePoint(X, k) ==
  IF IsNaN(X) \/ k.k = "nan" THEN QNaN
  ELSE IF IsInf(X)
  THEN (IF k.k = "fin" /\ k.num = 0 THEN QNaN
        ELSE [k |-> "inf", num |-> X.v, den |-> 1])
  ELSE IF k.k = "inf"
  THEN (IF X.v = 0 THEN QNaN ELSE [k |-> "inf", num |-> Sign(X.v), den |-> 1])
  ELSE Q(X.v * k.num, k.den)

\* variant: without `if (ldm.X)`, an absent position becomes a present one
ScaleLandmarksUnchecked(ldms, k) ==
  [key \in DOMAIN ldms |->
     [ldms[key] EXCEPT !.X = SomeX(ScalePoint(ldms[key].X.value, k))]]
\* variant: every position is multiplied twice
ScaleLandmarksTwice(ldms, k) ==
  [key \in DOMAIN ldms |->
     IF ldms[key].X.has
     THEN [ldms[key] EXCEPT
             !.X = SomeX(ScalePoint(ldms[key].X.value, Q(k.num * k.num, k.den * k.den)))]
     ELSE ldms[key]]
\* ScaleLandmarks: every present position is multiplied by the scale
ScaleLandmarks(ldms, k) ==
  [key \in DOMAIN ldms |->
     IF ldms[key].X.has
     THEN [ldms[key] EXCEPT !.X = SomeX(ScalePoint(ldms[key].X.value, k))]
     ELSE ldms[key]]

\* the values of --save-landmarks and --save-scaled-landmarks: not given, a
\* path WriteMesh knows (.obj, .ply), a path it does not
MeshArgs == {"none", "ply", "txt"}
\* el::is_file_type(path, "obj") or el::is_file_type(path, "ply")
IsMeshType(arg) == arg = "ply"
\* no file written
NoMesh == [written |-> FALSE, vertices |-> <<>>]
\* WriteOBJ, WritePLY: one vertex per landmark with a position, in map order
WriteMesh(ldms) ==
  LET keys == SelectSeq(KeysOf(ldms), LAMBDA key : ldms[key].X.has)
  IN  [written |-> TRUE,
       vertices |-> [n \in 1..Len(keys) |-> ldms[keys[n]].X.value]]

\* variant: two observations are taken as enough
TooFewObservationsTwo(obs) == Len(obs) < MinObs - 1
\* if (obs.size() < 3)
TooFewObservations(obs) == Len(obs) < MinObs

\* variant: fewer than two samples are refused
TooFewScalesTwo(q) == Len(q) < 2
\* if (scales.empty())
TooFewScales(q) == q = <<>>
\* if (numTriangulated < 2)
TooFewLandmarks(n) == n < 2


(***************************************************************************)
(* State                                                                   *)
(***************************************************************************)
VARIABLES
  \* one RANSAC<float, RansacObservation, Vec3> call after another
  x,            \* the dataset
  pc,           \* "idle", "loop", "final", "done"
  callSeed,     \* the seed argument of the running call
  i, breakIter, bestResult, bestModel,
  rng,          \* the static generator, shared by all calls
  accepted,     \* a candidate replaced bestModel in this call
  loopModel,    \* what the final evaluation read from bestModel
  lastFit,      \* the last call of fitFn: argument and return
  lastEval,     \* the last call of evalFn: model and return
  ret,          \* the returned {bestModel, bestResult}
  calls, callLimit,
  seededRet,    \* per seed, what the first call with it returned
  maxIters,     \* the nIters argument of the calls
  iters,        \* passes through the loop body in the running call
  fitCalls,     \* calls of fitFn in the running call
  evalCalls,    \* calls of evalFn in the running call
  prev,         \* the locals before the last pass through the loop body
  \* main of global_scaler
  mainPc,       \* "detect", "triangulate", "measure", "scale", "save",
                \* "saveScaled", "exit"
  noRansac,     \* --no-ransac
  markerSize,   \* --marker-size
  viewIdx,      \* the next view of the detection loop
  markerIDs, landmarks,
  ldmIdx,       \* the next landmark of the triangulation pass
  numTriangulated, scales, scale, exitCode,
  unscaledMesh, \* the file of --save-landmarks
  scaledMesh,   \* the file of --save-scaled-landmarks
  added,        \* every ldm->obs.emplace_back so far: landmark id, view, pixel
  attempts      \* every triangulation called so far: landmark id, success

ransacVars ==
  <<x, pc, callSeed, i, breakIter, bestResult, bestModel, rng, accepted,
    loopModel, lastFit, lastEval, ret, calls, callLimit, seededRet, maxIters,
    iters, fitCalls, evalCalls, prev>>
mainVars ==
  <<mainPc, noRansac, markerSize, viewIdx, markerIDs, landmarks, ldmIdx,
    numTriangulated, scales, scale, exitCode, unscaledMesh, scaledMesh, added,
    attempts>>
vars == <<ransacVars, mainVars>>

Seeds == {0, 1}
NoSeed == [has |-> FALSE, value |-> 0]
SomeSeed(n) == [has |-> TRUE, value |-> n]

\* datasets: MinObs..MaxObs observations of one landmark, one per view in
\* turn
ObsLists ==
  UNION {[1..n -> Pixels] : n \in MinObs..MaxObs}
ObsOf(pix) == [n \in 1..Len(pix) |-> <<ViewOf(n), pix[n]>>]

\* --marker-size values
MarkerSizes == {2}
\* the corner pixels a detector reports for one marker
CornerPatterns == {<<2, 0, 3, 2>>, <<3, 0, 3, 2>>, <<2, 0, 2, 0>>}
\* what DetectMarkers can return for one image: no marker, the first marker,
\* both markers seen alike, or the first marker found twice in the image
DetectionResults ==
  {<<>>}
    \cup {<<[id |-> Markers[1], corners |-> c]>> : c \in CornerPatterns}
    \cup {<<[id |-> Markers[1], corners |-> <<2, 2, 2, 2>>],
            [id |-> Markers[2], corners |-> <<2, 2, 2, 2>>]>>}
    \cup {<<[id |-> Markers[1], corners |-> <<1, 2, 0, 0>>],
            [id |-> Markers[1], corners |-> <<1, 2, 0, 0>>]>>}

NoScale == [k |-> "none", num |-> 0, den |-> 1]

RansacStart(limit, n) ==
  /\ rng \in RngStates
  /\ pc = "idle"
  /\ callSeed = NoSeed
  /\ maxIters = n
  /\ i = 0
  /\ breakIter = n
  /\ iters = 0
  /\ fitCalls = 0
  /\ evalCalls = 0
  /\ prev = LoopStart(rng, n)
  /\ bestResult = DefaultResult
  /\ bestModel = Uninit
  /\ accepted = FALSE
  /\ loopModel = NaN
  /\ lastFit = NoFit
  /\ lastEval = NoEval
  /\ ret = NoRet
  /\ calls = 0
  /\ callLimit = limit
  /\ seededRet = [s \in Seeds |-> [set |-> FALSE, ret |-> NoRet]]

MainStart ==
  /\ mainPc = "detect"
  /\ viewIdx = 1
  /\ markerIDs = {}
  /\ landmarks = [key \in {} |-> DefaultLandmark]
  /\ ldmIdx = 1
  /\ numTriangulated = 0
  /\ scales = <<>>
  /\ scale = NoScale
  /\ exitCode = Running
  /\ unscaledMesh = NoMesh
  /\ scaledMesh = NoMesh
  /\ added = <<>>
  /\ attempts = <<>>

\* one RANSAC call on a dataset
Init ==
  /\ x \in {BuildX(ObsOf(pix)) : pix \in ObsLists}
  /\ RansacStart(1, nIters)
  /\ noRansac = FALSE
  /\ markerSize = 1
  /\ MainStart

\* one RANSAC call with nIters = BudgetIters on a dataset
InitBudget ==
  /\ x \in {BuildX(ObsOf(pix)) : pix \in ObsLists}
  /\ RansacStart(1, BudgetIters)
  /\ noRansac = FALSE
  /\ markerSize = 1
  /\ MainStart

\* up to MaxCalls calls on a dataset
InitCalls ==
  /\ x \in {BuildX(ObsOf(pix)) : pix \in ObsLists}
  /\ RansacStart(MaxCalls, nIters)
  /\ noRansac = FALSE
  /\ markerSize = 1
  /\ MainStart

\* a run of global_scaler
InitScaler ==
  /\ x = <<>>
  /\ RansacStart(0, nIters)
  /\ rng = 0
  /\ noRansac \in BOOLEAN
  /\ markerSize \in MarkerSizes
  /\ MainStart


(***************************************************************************)
(* RANSAC, step by step                                                    *)
(***************************************************************************)
\* the locals of the running call
Locals ==
  [i |-> i, nIters |-> maxIters, breakIter |-> breakIter,
   bestResult |-> bestResult,
   bestModel |-> bestModel, rng |-> rng, accepted |-> accepted,
   brk |-> FALSE, fit |-> lastFit, eval |-> lastEval]

SetLocals(st) ==
  /\ i' = st.i
  /\ breakIter' = st.breakIter
  /\ bestResult' = st.bestResult
  /\ bestModel' = st.bestModel
  /\ rng' = st.rng
  /\ accepted' = st.accepted
  /\ lastFit' = st.fit
  /\ lastEval' = st.eval

\* entry: the locals are constructed; if (seed.has_value()) rng.seed(...)
RANSACBegin(seed) ==
  /\ pc = "idle"
  /\ calls < callLimit
  /\ LET st == LoopStart(IF seed.has THEN RngSeed(seed.value) ELSE rng,
                         maxIters)
     IN  SetLocals(st) /\ prev' = st
  /\ callSeed' = seed
  /\ calls' = calls + 1
  /\ iters' = 0
  /\ fitCalls' = 0
  /\ evalCalls' = 0
  /\ pc' = "loop"
  /\ UNCHANGED <<x, loopModel, ret, callLimit, seededRet, maxIters, mainVars>>

\* one iteration of the loop
RANSACIterate ==
  /\ pc = "loop"
  /\ LoopRuns(Locals)
  /\ LET st == LoopBody(x, Locals)
     IN  /\ SetLocals(st)
         /\ pc' = IF st.brk THEN "final" ELSE "loop"
         \* fit(samples) always; eval(x, model) unless the fit failed
         /\ fitCalls' = fitCalls + 1
         /\ evalCalls' = IF st.fit.success THEN evalCalls + 1 ELSE evalCalls
  /\ iters' = iters + 1
  /\ prev' = Locals
  /\ UNCHANGED <<x, callSeed, loopModel, ret, calls, callLimit, seededRet,
                 maxIters, mainVars>>

\* the loop condition fails, or i > breakIter
RANSACLoopExit ==
  /\ pc = "loop"
  /\ ~LoopRuns(Locals)
  /\ pc' = "final"
  /\ UNCHANGED <<x, callSeed, i, breakIter, bestResult, bestModel, rng,
                 accepted, loopModel, lastFit, lastEval, ret, calls,
                 callLimit, seededRet, maxIters, iters, fitCalls, evalCalls,
                 prev, mainVars>>

\* the final evaluation and refit, and the return value
RANSACFinalize ==
  /\ pc = "final"
  /\ \E m \in ReadModel(bestModel), junk \in Garbage, ub \in BOOLEAN :
       LET fin == Finalize(x, bestResult, m, junk, ub)
       IN  /\ loopModel' = m
           /\ lastEval' = fin.eval
           /\ lastFit' = fin.fit
           /\ bestResult' = fin.result
           /\ bestModel' = fin.model
           /\ ret' = [model |-> fin.model, result |-> fin.result]
  /\ pc' = "done"
  /\ fitCalls' = fitCalls + 1
  /\ evalCalls' = evalCalls + 1
  /\ UNCHANGED <<x, callSeed, i, breakIter, rng, accepted, calls, callLimit,
                 seededRet, maxIters, iters, prev, mainVars>>

\* the caller takes the return value; the locals are gone, rng stays
RANSACReturn ==
  /\ pc = "done"
  /\ seededRet' =
       IF callSeed.has /\ ~seededRet[callSeed.value].set
       THEN [seededRet EXCEPT ![callSeed.value] = [set |-> TRUE, ret |-> ret]]
       ELSE seededRet
  /\ LET st == LoopStart(rng, maxIters)
     IN  SetLocals(st) /\ prev' = st
  /\ callSeed' = NoSeed
  /\ loopModel' = NaN
  /\ ret' = NoRet
  /\ iters' = 0
  /\ fitCalls' = 0
  /\ evalCalls' = 0
  /\ pc' = "idle"
  /\ UNCHANGED <<x, calls, callLimit, maxIters, mainVars>>

\* Triangulate(x) called on the whole dataset, as main does with --no-ransac
DirectTriangulate ==
  /\ pc = "idle"
  /\ calls < callLimit
  /\ \E junk \in Garbage :
       LET f == Triangulate(x, junk, FALSE)
       IN  lastFit' = [called |-> TRUE, arg |-> x, success |-> f.success,
                       X |-> f.X]
  /\ calls' = calls + 1
  /\ UNCHANGED <<x, pc, callSeed, i, breakIter, bestResult, bestModel, rng,
                 accepted, loopModel, lastEval, ret, callLimit, seededRet,
                 maxIters, iters, fitCalls, evalCalls, prev, mainVars>>

Next ==
  \/ \E s \in Seeds : RANSACBegin(SomeSeed(s))
  \/ RANSACBegin(NoSeed)
  \/ RANSACIterate
  \/ RANSACLoopExit
  \/ RANSACFinalize
  \/ RANSACReturn
  \/ DirectTriangulate

Spec == Init /\ [][Next]_vars
SpecCalls == InitCalls /\ [][Next]_vars
SpecBudget == InitBudget /\ [][Next]_vars

(***************************************************************************)
(* main of global_scaler, step by step                                     *)
(***************************************************************************)
\* one pass of the detection loop: the view is filtered out or has no
\* marker (an empty result), or its markers are recorded
DetectView ==
  /\ mainPc = "detect"
  /\ viewIdx \in Views
  /\ \E res \in DetectionResults :
       /\ markerIDs' = markerIDs \cup MarkerIdsOf(res)
       /\ landmarks' = AddMarkers(landmarks, viewIdx, res)
       /\ added' = added \o Additions(viewIdx, res)
  /\ viewIdx' = viewIdx + 1
  /\ mainPc' = IF viewIdx + 1 \in Views THEN "detect" ELSE "triangulate"
  /\ UNCHANGED <<noRansac, markerSize, ldmIdx, numTriangulated, scales, scale,
                 exitCode, unscaledMesh, scaledMesh, attempts, ransacVars>>

\* variant: the position is stored whatever the outcome
StoreLandmarkAlways(key, r) ==
  /\ attempts' = Append(attempts, [id |-> key, success |-> r.success])
  /\ landmarks' = [landmarks EXCEPT ![key].X = SomeX(r.X)]
  /\ numTriangulated' = numTriangulated + 1
\* what the triangulation pass does with one landmark, given the outcome
\* {success, X} of its triangulation
StoreLandmark(key, r) ==
  /\ attempts' = Append(attempts, [id |-> key, success |-> r.success])
  /\ IF r.success
     THEN /\ landmarks' = [landmarks EXCEPT ![key].X = SomeX(r.X)]
          /\ numTriangulated' = numTriangulated + 1
     ELSE UNCHANGED <<landmarks, numTriangulated>>

\* one pass of the triangulation loop
TriangulateLandmark ==
  /\ mainPc = "triangulate"
  /\ ldmIdx <= Len(KeysOf(landmarks))
  /\ LET key == KeysOf(landmarks)[ldmIdx]
         xs == BuildX(landmarks[key].obs)
     IN  IF TooFewObservations(landmarks[key].obs)
         THEN UNCHANGED <<landmarks, numTriangulated, attempts>>
         ELSE IF noRansac
         THEN \E junk \in Garbage :
                StoreLandmark(key, Triangulate(xs, junk, FALSE))
         ELSE \E m \in ReadModel(RansacLoopModel(xs)), junk \in Garbage,
                 ub \in BOOLEAN :
                StoreLandmark(key, TriangulateRansac(xs, m, junk, ub))
  /\ ldmIdx' = ldmIdx + 1
  /\ UNCHANGED <<mainPc, noRansac, markerSize, viewIdx, markerIDs, scales,
                 scale, exitCode, unscaledMesh, scaledMesh, added, ransacVars>>

\* after the pass: if (numTriangulated < 2) return NO_LDMS
CheckTriangulated ==
  /\ mainPc = "triangulate"
  /\ ldmIdx > Len(KeysOf(landmarks))
  /\ IF TooFewLandmarks(numTriangulated)
     THEN mainPc' = "exit" /\ exitCode' = NO_LDMS
     ELSE mainPc' = "measure" /\ exitCode' = exitCode
  /\ UNCHANGED <<noRansac, markerSize, viewIdx, markerIDs, landmarks, ldmIdx,
                 numTriangulated, scales, scale, unscaledMesh, scaledMesh, added,
                 attempts, ransacVars>>

\* the measuring loops; if (scales.empty()) return NO_SCALES
MeasureScales ==
  /\ mainPc = "measure"
  /\ LET acc == MeasureMarkers([landmarks |-> landmarks, scales |-> <<>>],
                               markerIDs, markerSize, 1)
     IN  /\ landmarks' = acc.landmarks
         /\ scales' = acc.scales
         /\ IF TooFewScales(acc.scales)
            THEN mainPc' = "exit" /\ exitCode' = NO_SCALES
            ELSE mainPc' = "scale" /\ exitCode' = exitCode
  /\ UNCHANGED <<noRansac, markerSize, viewIdx, markerIDs, ldmIdx,
                 numTriangulated, scale, unscaledMesh, scaledMesh, added,
                 attempts, ransacVars>>

\* the scale factor.  (--output-scene then scales and saves a scene that
\* nothing reads afterwards.)
ComputeScale ==
  /\ mainPc = "scale"
  /\ scale' = MeanScale(scales)
  /\ mainPc' = "save"
  /\ UNCHANGED <<noRansac, markerSize, viewIdx, markerIDs, landmarks, ldmIdx,
                 numTriangulated, scales, exitCode, unscaledMesh, scaledMesh,
                 added, attempts, ransacVars>>

\* if (args.count("save-landmarks") > 0 and not markerIDs.empty())
SaveLandmarks ==
  /\ mainPc = "save"
  /\ \E arg \in MeshArgs :
       IF arg = "none" \/ markerIDs = {}
       THEN /\ mainPc' = "saveScaled"
            /\ UNCHANGED <<unscaledMesh, exitCode>>
       ELSE IF IsMeshType(arg)
       THEN /\ unscaledMesh' = WriteMesh(landmarks)
            /\ mainPc' = "saveScaled"
            /\ UNCHANGED exitCode
       ELSE /\ mainPc' = "exit"
            /\ exitCode' = UNCAUGHT
            /\ UNCHANGED unscaledMesh
  /\ UNCHANGED <<noRansac, markerSize, viewIdx, markerIDs, landmarks, ldmIdx,
                 numTriangulated, scales, scale, scaledMesh, added, attempts,
                 ransacVars>>

\* if (args.count("save-scaled-landmarks") > 0 and not markerIDs.empty()):
\* ScaleLandmarks, then WriteMesh; then main ends
SaveScaledLandmarks ==
  /\ mainPc = "saveScaled"
  /\ \E arg \in MeshArgs :
       IF arg = "none" \/ markerIDs = {}
       THEN /\ exitCode' = SUCCESS
            /\ UNCHANGED <<landmarks, scaledMesh>>
       ELSE /\ landmarks' = ScaleLandmarks(landmarks, scale)
            /\ IF IsMeshType(arg)
               THEN /\ scaledMesh' = WriteMesh(landmarks')
                    /\ exitCode' = SUCCESS
               ELSE /\ exitCode' = UNCAUGHT
                    /\ UNCHANGED scaledMesh
  /\ mainPc' = "exit"
  /\ UNCHANGED <<noRansac, markerSize, viewIdx, markerIDs, ldmIdx,
                 numTriangulated, scales, scale, unscaledMesh, added, attempts,
                 ransacVars>>

NextScaler ==
  \/ DetectView
  \/ TriangulateLandmark
  \/ CheckTriangulated
  \/ MeasureScales
  \/ ComputeScale
  \/ SaveLandmarks
  \/ SaveScaledLandmarks

SpecScaler == InitScaler /\ [][NextScaler]_vars

(***************************************************************************)
(* Properties                                                              *)
(***************************************************************************)
\* what a result says besides success
Stats(r) == <<r.error, r.fitness, r.inliers, r.inlier_rmse>>
Returned == pc = "done"
SomeView(xs, P(_)) == \E n \in 1..Len(xs) : P(xs[n])
EveryView(xs, P(_)) == \A n \in 1..Len(xs) : P(xs[n])
\* the point the solver gives for a sample
SolvedPoint(xs) == hnormalized(TriangulateNViewAlgebraic(xs))
RECURSIVE SumSeq(_)
SumSeq(q) == IF q = <<>> THEN 0 ELSE Head(q) + SumSeq(Tail(q))

Exited == mainPc = "exit"

C2_ResultEvaluatesReturnedModel ==
  Returned => Stats(ret.result) = Stats(EvalTriangulate(x, ret.model))

\* C2 amended: the returned fitness, inliers, error and inlierRMSE are the
\* evaluation of the best model of the loop, as it was before the refit;
\* the returned model is the fit on those inliers and the returned success
\* is the success of that fit.
C2_ResultEvaluatesLoopModel ==
  Returned =>
    /\ Stats(ret.result) = Stats(EvalTriangulate(x, loopModel))
    /\ lastFit.arg = ret.result.inliers
    /\ ret.result.success = lastFit.success
    /\ ret.model = lastFit.X

\* a return where the refit moved the model and the two evaluations differ
C2_Witness ==
  /\ Returned
  /\ accepted
  /\ ret.result.success
  /\ ret.model # loopModel
  /\ Stats(EvalTriangulate(x, ret.model)) # Stats(ret.result)

\* C3: when no iteration accepted a candidate, the returned result has
\* success = false.
C3_NoAcceptReturnsFailure ==
  (Returned /\ ~accepted) => ~ret.result.success

\* C4: when the final refit on the inliers fails, the returned result has
\* success = false, its inliers, fitness, error and inlierRMSE are those of
\* the last evaluation, and the returned model is the one the failed fit
\* returned.
C4_FailedRefit ==
  (Returned /\ ~lastFit.success) =>
    /\ ~ret.result.success
    /\ Stats(ret.result) = Stats(lastEval.result)
    /\ lastEval.X = loopModel
    /\ ret.model = lastFit.X

\* a failed refit after a candidate was accepted, returning another model
\* than the best of the loop
C4_Witness ==
  /\ Returned
  /\ accepted
  /\ ~lastFit.success
  /\ lastFit.arg # <<>>
  /\ ret.model # loopModel

\* C5: a call with an explicit seed returns the model and result that the
\* first call with that seed on the same data returned.
C5_SameSeedSameReturn ==
  (Returned /\ callSeed.has /\ seededRet[callSeed.value].set) =>
    ret = seededRet[callSeed.value].ret

\* C6: when any observation fails the chirality test, the evaluation is the
\* default result: success = false, fitness = 0, no inliers.
C6_ChiralityGate ==
  (lastEval.called /\ SomeView(x, LAMBDA ro : ~Chirality(ro, lastEval.X))) =>
    /\ lastEval.result = DefaultResult
    /\ ~lastEval.result.success
    /\ FitnessIsZero(lastEval.result.fitness)
    /\ lastEval.result.inliers = <<>>

\* only the last observation fails chirality; every other one passes and is
\* within the threshold
C6_Witness ==
  /\ lastEval.called
  /\ ~Chirality(x[Len(x)], lastEval.X)
  /\ \A n \in 1..(Len(x) - 1) :
       /\ Chirality(x[n], lastEval.X)
       /\ FLessInt(Residual(x[n], lastEval.X), threshold)
  /\ lastEval.result = DefaultResult

\* the observations within the threshold, in input order
InliersOf(xs, X) ==
  SelectSeq(xs, LAMBDA ro : FLessInt(Residual(ro, X), threshold))
ResidualsOf(xs, X) == [n \in 1..Len(xs) |-> Residual(xs[n], X).v]

\* C7: when every observation passes chirality the evaluation succeeds, its
\* inliers are the observations with residual < threshold in input order,
\* error is the sum of their residuals, fitness is |inliers| / |x| and
\* inlierRMSE is error / sqrt(|inliers|), infinite without inliers.
C7_EvalResult ==
  (lastEval.called /\ EveryView(x, LAMBDA ro : Chirality(ro, lastEval.X))) =>
    LET r == lastEval.result
        inl == InliersOf(x, lastEval.X)
        err == SumSeq(ResidualsOf(inl, lastEval.X))
    IN  /\ r.success
        /\ r.inliers = inl
        /\ r.error = Fin(err)
        /\ r.fitness.n * Len(x) = Len(inl) * r.fitness.d
        /\ IF Len(inl) > 0
           THEN /\ r.inlier_rmse.k = "fin"
                /\ r.inlier_rmse.num * Len(inl) = err * err * r.inlier_rmse.den
           ELSE r.inlier_rmse = RmseInf

\* an evaluation with an inlier and an observation exactly at the threshold
C7_Witness ==
  /\ lastEval.called
  /\ EveryView(x, LAMBDA ro : Chirality(ro, lastEval.X))
  /\ lastEval.result.success
  /\ lastEval.result.inliers # <<>>
  /\ SomeView(x, LAMBDA ro : Residual(ro, lastEval.X) = Fin(threshold))

IsResultOf(r, xs) ==
  /\ Len(r.inliers) <= Len(xs)
  /\ \A n \in 1..Len(r.inliers) : \E m \in 1..Len(xs) : r.inliers[n] = xs[m]
  /\ FitnessIsZero(r.fitness) => r.inliers = <<>>

\* C8: the result of an evaluation and the result RANSAC returns have
\* inliers taken from the dataset, and no inliers when fitness is 0.
C8_InliersOfDataset ==
  /\ lastEval.called => IsResultOf(lastEval.result, x)
  /\ Returned => IsResultOf(ret.result, x)

\* a returned result with some, not all, observations as inliers
C8_Witness ==
  /\ Returned
  /\ ret.result.inliers # <<>>
  /\ Len(ret.result.inliers) < Len(x)

\* C9: the fit fails when the solved point fails chirality for any input
\* observation, and succeeds only with a point in front of every one.
C9_FitAllOrNothing ==
  lastFit.called =>
    /\ SomeView(lastFit.arg,
                LAMBDA ro : ~Chirality(ro, SolvedPoint(lastFit.arg)))
         => ~lastFit.success
    /\ lastFit.success
         => EveryView(lastFit.arg, LAMBDA ro : Chirality(ro, lastFit.X))

\* a fit on all observations of which exactly one, not the first, fails
\* chirality
C9_Witness ==
  /\ lastFit.called
  /\ Len(lastFit.arg) = Len(x)
  /\ \E k \in 2..Len(x) :
       /\ ~Chirality(lastFit.arg[k], SolvedPoint(lastFit.arg))
       /\ \A n \in (1..Len(x)) \ {k} :
            Chirality(lastFit.arg[n], SolvedPoint(lastFit.arg))
  /\ ~lastFit.success

PassDone == mainPc \notin {"detect", "triangulate"}
AttemptedIds == {attempts[n].id : n \in 1..Len(attempts)}
\* the landmarks the pass has gone through so far, in map order
PassedKeys ==
  LET keys == KeysOf(landmarks)
  IN  SubSeq(keys, 1, Min(ldmIdx - 1, Len(keys)))

\* C11: a landmark with fewer than 3 observations never has a position and
\* no triangulation is called for it; the pass skips it and goes on to the
\* end of the map.
C11_FewObservationsSkipped ==
  /\ \A key \in DOMAIN landmarks :
       Len(landmarks[key].obs) < 3 =>
         /\ ~landmarks[key].X.has
         /\ key \notin AttemptedIds
  /\ PassDone => ldmIdx = Len(KeysOf(landmarks)) + 1

\* after the pass: a landmark with 2 observations next to a triangulated
\* one
C11_Witness ==
  /\ PassDone
  /\ \E key \in DOMAIN landmarks :
       Len(landmarks[key].obs) = 2 /\ ~landmarks[key].X.has
  /\ \E key \in DOMAIN landmarks :
       Len(landmarks[key].obs) >= 3 /\ landmarks[key].X.has

\* C12: a landmark with at least 3 observations has a position exactly when
\* its triangulation reported success, and the pass calls the triangulation
\* once for each such landmark it has gone through, in map order, whatever
\* the earlier outcomes.
C12_PositionIffSuccess ==
  /\ \A n \in 1..Len(attempts) :
       landmarks[attempts[n].id].X.has <=> attempts[n].success
  /\ [n \in 1..Len(attempts) |-> attempts[n].id]
       = SelectSeq(PassedKeys, LAMBDA key : Len(landmarks[key].obs) >= 3)

\* a failed triangulation followed by a successful one
C12_Witness ==
  /\ PassDone
  /\ \E n \in 1..Len(attempts) : \E m \in (n + 1)..Len(attempts) :
       /\ ~attempts[n].success
       /\ ~landmarks[attempts[n].id].X.has
       /\ attempts[m].success
       /\ landmarks[attempts[m].id].X.has

\* the additions made under one identity, in order
AddedUnder(key) ==
  LET mine == SelectSeq(added, LAMBDA a : a.id = key)
  IN  [n \in 1..Len(mine) |-> <<mine[n].view, mine[n].o>>]
IsPrefix(p, q) == Len(p) <= Len(q) /\ SubSeq(q, 1, Len(p)) = p

\* C13: the landmark collection has exactly one landmark per corner
\* identity seen, the observation list of each is the sequence of all
\* additions made under that identity, one entry per addition, and
\* observation lists only grow.
C13_LandmarksAreAdditions ==
  /\ [](/\ DOMAIN landmarks = {added[n].id : n \in 1..Len(added)}
        /\ \A key \in DOMAIN landmarks : landmarks[key].obs = AddedUnder(key))
  /\ [][\A key \in DOMAIN landmarks :
          /\ key \in DOMAIN landmarks'
          /\ IsPrefix(landmarks[key].obs, landmarks'[key].obs)]_vars

\* a landmark with two observations from the same view
C13_Witness ==
  \E key \in DOMAIN landmarks :
    \E n \in 1..(Len(landmarks[key].obs) - 1) :
      landmarks[key].obs[n][1] = landmarks[key].obs[n + 1][1]

\* the measuring loops are over and no position has been scaled
Measured == mainPc = "scale" \/ (Exited /\ exitCode = NO_SCALES)
\* the marker edges, marker after marker, each from corner cur to corner
\* next = (cur + 1) mod 4
EdgeList ==
  [n \in 1..(Len(Markers) * 4) |->
     [marker |-> Markers[((n - 1) \div 4) + 1], cur |-> (n - 1) % 4,
      next |-> (((n - 1) % 4) + 1) % 4]]
HasPosition(marker, corner) ==
  /\ GetLandmarkID(marker, corner) \in DOMAIN landmarks
  /\ landmarks[GetLandmarkID(marker, corner)].X.has
PositionOf(marker, corner) == landmarks[GetLandmarkID(marker, corner)].X.value
\* the edges of observed markers with a position at both ends
MeasuredEdges ==
  SelectSeq(EdgeList,
            LAMBDA e : /\ e.marker \in markerIDs
                       /\ HasPosition(e.marker, e.cur)
                       /\ HasPosition(e.marker, e.next))
\* s is size / |c1 - c0| in doubles
IsRatioOf(s, size, c0, c1) ==
  IF c0.k = "nan" \/ c1.k = "nan" \/ (c0.k = "inf" /\ c1 = c0)
  THEN s.k = "nan"
  ELSE IF c0.k = "inf" \/ c1.k = "inf"
  THEN s.k = "fin" /\ s.num = 0
  ELSE IF c0.v = c1.v
  THEN s.k = "inf"
  ELSE s.k = "fin" /\ s.num * Abs(c1.v - c0.v) = size * s.den

\* C14: the scale samples are, in order, one per edge i -> (i + 1) mod 4 of
\* an observed marker whose two end corners have a position, each the
\* marker size divided by the distance of the two positions; an edge with
\* an absent end gives no sample.
C14_OneSamplePerEdge ==
  Measured =>
    /\ Len(scales) = Len(MeasuredEdges)
    /\ \A n \in 1..Len(MeasuredEdges) :
         LET e == MeasuredEdges[n]
         IN  IsRatioOf(scales[n], markerSize, PositionOf(e.marker, e.cur),
                       PositionOf(e.marker, e.next))

\* a marker measured on edge 2 -> 3 and on its closing edge 3 -> 0, with
\* corner 1 absent
C14_Witness ==
  /\ mainPc = "scale"
  /\ noRansac
  /\ HasPosition(1, 0) /\ HasPosition(1, 2) /\ HasPosition(1, 3)
  /\ ~HasPosition(1, 1)
  /\ Len(scales) = 2
  /\ scales[2].k = "fin" /\ scales[2].num > 0

RECURSIVE SumOf(_)
\* the sum of a sequence of doubles
SumOf(q) == IF q = <<>> THEN Q(0, 1) ELSE QAdd(Head(q), SumOf(Tail(q)))
\* the arithmetic mean: the sum, divided by the count
MeanOf(q) == QDivInt(SumOf(q), Len(q))
\* the reorderings of a sequence: all of them for a short one, and for a
\* longer one its reverse and its rotations
Reorderings(q) ==
  IF Len(q) <= 4
  THEN {[n \in 1..Len(q) |-> q[f[n]]] : f \in Permutations(1..Len(q))}
  ELSE {[n \in 1..Len(q) |-> q[Len(q) + 1 - n]]}
         \cup {[n \in 1..Len(q) |-> q[((n + r) % Len(q)) + 1]] : r \in 1..Len(q)}
ScaleComputed == Exited /\ exitCode = SUCCESS

\* C15: the scale factor is the arithmetic mean of the collected samples
\* (NaN when a sample is NaN), and the computation gives the same value on
\* every reordering of the samples.
C15_ScaleIsMean ==
  ScaleComputed =>
    /\ scales # <<>>
    /\ scale = MeanOf(scales)
    /\ \A p \in Reorderings(scales) : MeanScale(p) = scale

\* a mean of at least two samples, not all equal, that is none of them
C15_Witness ==
  /\ ScaleComputed
  /\ noRansac
  /\ Len(scales) >= 2
  /\ scale.k = "fin"
  /\ \A n \in 1..Len(scales) : scales[n] # scale

\* ScaleLandmarks has run and the scaled positions are in the second file
Rescaled == scaledMesh.written
IsPositive(q) == q.k = "fin" /\ q.num > 0
\* |p1 - p0| for two finite scaled positions
ScaledDistance(p1, p0) ==
  Q(Abs(p1.num * p0.den - p0.num * p1.den), p1.den * p0.den)
\* size / |p1 - p0| on scaled positions, in doubles
RescaledRatio(size, p0, p1) ==
  IF p0.k = "nan" \/ p1.k = "nan" \/ (p0.k = "inf" /\ p1 = p0) THEN QNaN
  ELSE IF p0.k = "inf" \/ p1.k = "inf" THEN Q(0, 1)
  ELSE IF ScaledDistance(p1, p0).num = 0 THEN QInf
  ELSE Q(size * ScaledDistance(p1, p0).den, ScaledDistance(p1, p0).num)
RatioOfEdge(e) ==
  RescaledRatio(markerSize, PositionOf(e.marker, e.cur),
                PositionOf(e.marker, e.next))
\* within 1/100 of 1.0
IsNearOne(q) ==
  /\ q.k = "fin"
  /\ 100 * Abs(q.num - q.den) <= q.den

PairsOf(xs) ==
  {<<xs[p[1]], xs[p[2]]>> :
     p \in {q \in (1..Len(xs)) \X (1..Len(xs)) : q[1] < q[2]}}
\* fitness == 1.0
FitnessIsOne(f) == f.n = f.d /\ f.d > 0
\* every pair of observations gives a model, and every such model makes
\* all observations inliers
AllConsistent(xs) ==
  \A pair \in PairsOf(xs) :
    LET f == Triangulate(pair, NaN, FALSE)
    IN  /\ f.success
        /\ EvalTriangulate(xs, f.X).success
        /\ FitnessIsOne(EvalTriangulate(xs, f.X).fitness)

\* C17: when every model fitted from a pair of observations makes all
\* observations inliers, RANSAC with nSamples = 2 returns a result with
\* fitness 1.0 and leaves the loop before maxIters passes have run.
C17_ConsistentDataFitsAtOnce ==
  (pc \in {"final", "done"} /\ AllConsistent(x)) =>
    /\ iters < maxIters
    /\ FitnessIsOne(bestResult.fitness)
    /\ Returned => FitnessIsOne(ret.result.fitness)

\* a call on consistent observations that are not all alike has returned
C17_Witness ==
  /\ Returned
  /\ AllConsistent(x)
  /\ \E a, b \in 1..Len(x) : x[a].obs # x[b].obs
  /\ iters = 1
  /\ FitnessIsOne(ret.result.fitness)
  /\ ret.result.success

\* C18: RANSAC always terminates.  Whatever fitFn and evalFn return, the
\* loop body runs at most maxIters times and fitFn and evalFn are each
\* called at most maxIters + 1 times in a call; every step of a running
\* call is a counted pass through the loop body or moves the call on
\* towards its return, so a call takes at most maxIters + 3 steps.
C18_Terminates ==
  /\ [](/\ iters <= maxIters
        /\ fitCalls <= iters + 1
        /\ evalCalls <= fitCalls
        /\ fitCalls <= maxIters + 1
        /\ evalCalls <= maxIters + 1)
  /\ [][/\ pc = "loop" => (iters' = iters + 1 \/ pc' = "final")
        /\ pc = "final" => pc' = "done"
        /\ pc = "done" => pc' = "idle"]_vars

\* a returned call that used all its passes and called both functions in
\* each of them
C18_Witness ==
  /\ Returned
  /\ iters = maxIters
  /\ fitCalls = maxIters + 1
  /\ evalCalls = maxIters + 1

\* a pass through the loop body has just ended
PassEnded == pc \in {"loop", "final"} /\ iters > 0
\* the pass fitted and evaluated a candidate
HasCandidate == lastFit.success
\* the candidate of the pass wins on fitness
WinsOnFitness ==
  /\ HasCandidate
  /\ FitnessGreater(lastEval.result.fitness, prev.bestResult.fitness)
\* the candidate of the pass wins the tie-break
WinsOnRMSE ==
  /\ HasCandidate
  /\ FitnessEqual(lastEval.result.fitness, prev.bestResult.fitness)
  /\ RmseGreater(lastEval.result.inlier_rmse, prev.bestResult.inlier_rmse)

\* C19: a candidate replaces the best model and result exactly when its
\* fitness is strictly greater than the best fitness, or equal with a
\* strictly greater inlier_rmse; in every other case both are kept.
C19_ReplacementRule ==
  PassEnded =>
    IF WinsOnFitness \/ WinsOnRMSE
    THEN bestResult = lastEval.result /\ bestModel = lastFit.X
    ELSE bestResult = prev.bestResult /\ bestModel = prev.bestModel

\* a candidate has replaced an earlier candidate of equal fitness because
\* its inlier_rmse is greater
C19_Witness ==
  /\ PassEnded
  /\ prev.accepted
  /\ WinsOnRMSE
  /\ bestResult = lastEval.result
  /\ bestResult # prev.bestResult

\* ln(1 - 0.99999999) / ln(1 - fitness^2) in doubles, cut to an integer as
\* the assignment to std::size_t does, for the fitness values n/d of up to
\* 5 observations
BudgetTable ==
  [f \in {<<1, 3>>, <<2, 3>>, <<1, 4>>, <<1, 2>>, <<3, 4>>, <<1, 5>>, <<2, 5>>,
          <<3, 5>>, <<4, 5>>} |->
     CASE f = <<1, 3>> -> 156
       [] f = <<2, 3>> -> 31
       [] f = <<1, 4>> -> 285
       [] f = <<1, 2>> -> 64
       [] f = <<3, 4>> -> 22
       [] f = <<1, 5>> -> 451
       [] f = <<2, 5>> -> 105
       [] f = <<3, 5>> -> 41
       [] f = <<4, 5>> -> 18]
\* a fitness in lowest terms
Lowest(f) == <<f.n \div GCD(f.n, f.d), f.d \div GCD(f.n, f.d)>>
\* min(maxIters, ln(1 - targetProbability) / ln(1 - fitness^sampleSize))
ClaimedBudget(f) == Min(maxIters, BudgetTable[Lowest(f)])

\* C20 as stated: after an accepted improvement with fitness below 1.0 the
\* bound of the loop is min(maxIters, ln(1 - targetProbability) /
\* ln(1 - fitness^sampleSize)); it is never larger than the bound before,
\* and the passes run in the call never exceed the current bound.
C20_AdaptiveBudget ==
  PassEnded =>
    /\ ((WinsOnFitness \/ WinsOnRMSE) /\ FitnessBelowOne(bestResult.fitness))
         => breakIter = ClaimedBudget(bestResult.fitness)
    /\ breakIter <= prev.breakIter
    /\ iters <= breakIter

\* the last pass accepted its candidate
Accepted == PassEnded /\ (WinsOnFitness \/ WinsOnRMSE)

\* C21: when an accepted candidate has fitness 1.0 the loop ends at once:
\* the loop never goes on with a best fitness of 1.0, the generator is
\* where the sample of the accepting pass left it, and the only calls of
\* fitFn and evalFn that follow are those of the finalization.
C21_FullFitnessEndsLoop ==
  /\ [](pc = "loop" => ~FitnessIsOne(bestResult.fitness))
  /\ []((Accepted /\ FitnessIsOne(lastEval.result.fitness)) =>
         /\ pc = "final"
         /\ rng = Sample(x, nSamples, prev.rng).rng
         /\ i = prev.i)
  /\ [][pc = "final" =>
         /\ pc' = "done"
         /\ rng' = rng
         /\ iters' = iters
         /\ fitCalls' = fitCalls + 1
         /\ evalCalls' = evalCalls + 1]_vars

\* a candidate with fitness 1.0 was accepted while passes were left, and
\* the loop is over
C21_Witness ==
  /\ pc = "final"
  /\ Accepted
  /\ FitnessIsOne(bestResult.fitness)
  /\ iters < maxIters
  /\ fitCalls = iters

\* C22: a pass in which fitFn fails, or in which evalFn reports failure,
\* leaves the best model, the best result and the bound of the loop as they
\* were; evalFn is not called in a pass whose fitFn failed.
C22_FailedPassChangesNothing ==
  /\ []((PassEnded /\ (~lastFit.success \/ ~lastEval.result.success)) =>
         /\ bestResult = prev.bestResult
         /\ bestModel = prev.bestModel
         /\ breakIter = prev.breakIter)
  /\ [][(pc = "loop" /\ iters' = iters + 1 /\ ~lastFit'.success) =>
         /\ lastEval' = lastEval
         /\ evalCalls' = evalCalls]_vars

\* a pass whose evaluation reported failure, then a pass whose fit failed:
\* the best is still the initial one and the last evaluation is that of
\* the pass before
C22_Witness ==
  /\ PassEnded
  /\ iters = 2
  /\ prev.fit.success
  /\ prev.eval.called
  /\ ~prev.eval.result.success
  /\ ~lastFit.success
  /\ lastEval = prev.eval
  /\ evalCalls = 1
  /\ bestResult = DefaultResult
  /\ bestModel = Uninit

\* the sequences of n distinct positions of a sequence of length len
DistinctPositions(len, n) ==
  {f \in [1..n -> 1..len] : \A a, b \in 1..n : a # b => f[a] # f[b]}

\* C23: in every pass the sample passed to fitFn has exactly nSamples
\* elements, taken from distinct positions of the dataset.
C23_SampleWithoutReplacement ==
  PassEnded =>
    /\ lastFit.called
    /\ Len(lastFit.arg) = nSamples
    /\ \E f \in DistinctPositions(Len(x), nSamples) :
         /\ f = Sample(x, nSamples, prev.rng).idx
         /\ lastFit.arg = [j \in 1..nSamples |-> x[f[j]]]

\* the second pass of a call drew other positions than the first
C23_Witness ==
  /\ PassEnded
  /\ iters = 2
  /\ Len(lastFit.arg) = nSamples
  /\ lastFit.arg # prev.fit.arg
  /\ lastFit.arg[1] # lastFit.arg[2]

\* C24 as stated: the outcome of a landmark's triangulation (success and
\* position) depends only on that landmark's observations and the camera
\* and pose data: two landmarks with the same observations end the pass
\* with the same outcome, whichever other landmarks exist and wherever in
\* the pass they come, with RANSAC as well as without it.
C24_OutcomeOfOwnObservations ==
  PassDone =>
    \A k1, k2 \in DOMAIN landmarks :
      landmarks[k1].obs = landmarks[k2].obs =>
        landmarks[k1].X = landmarks[k2].X

\* C25 as stated: every landmark of the collection carries an id derived
\* from its marker and corner, "<markerId>.<cornerIndex>", equal to the key
\* it is stored under and unique among the landmarks.
C25_IdIsKey ==
  /\ \A key \in DOMAIN landmarks :
       /\ landmarks[key].id = key
       /\ \E n \in 1..Len(Markers), c \in 0..(NumCorners - 1) :
            landmarks[key].id = GetLandmarkID(Markers[n], c)
  /\ \A k1, k2 \in DOMAIN landmarks :
       landmarks[k1].id = landmarks[k2].id => k1 = k2

\* C26 as stated: Triangulate is never called on an empty sequence of
\* observations; the final refit of RANSAC has a non-empty set of inliers
\* also when no candidate was accepted or the final evaluation gave the
\* default result.
C26_FitNeverOnEmpty ==
  /\ lastFit.called => lastFit.arg # <<>>
  /\ Returned => ret.result.inliers # <<>>

\* the pass evaluated its candidate with success and found no inlier
ZeroInlierCandidate ==
  /\ HasCandidate
  /\ lastEval.result.success
  /\ lastEval.result.inliers = <<>>
  /\ FitnessIsZero(lastEval.result.fitness)
  /\ lastEval.result.inlier_rmse = RmseInf

\* C27: during a call the fitness of the best result never decreases from
\* one pass to the next, the best model and the best result are replaced
\* together or not at all, and a candidate whose evaluation succeeded with
\* no inlier is never accepted as the best.
C27_BestOnlyImproves ==
  PassEnded =>
    /\ ~FitnessGreater(prev.bestResult.fitness, bestResult.fitness)
    /\ (bestResult # prev.bestResult) <=> (bestModel # prev.bestModel)
    /\ (bestResult # prev.bestResult) =>
         (bestResult = lastEval.result /\ bestModel = lastEval.X)
    /\ ZeroInlierCandidate =>
         (bestResult = prev.bestResult /\ bestModel = prev.bestModel)
    /\ accepted <=> bestResult.inliers # <<>>

\* a pass whose candidate was evaluated with success and without inliers
\* has ended; the best is still the initial one
C27_Witness ==
  /\ PassEnded
  /\ ZeroInlierCandidate
  /\ lastEval.X = lastFit.X
  /\ bestResult = DefaultResult
  /\ bestModel = Uninit

\* the positions of the landmarks that have one, in map order
PresentPositions ==
  LET keys == SelectSeq(KeysOf(landmarks), LAMBDA key : landmarks[key].X.has)
  IN  [n \in 1..Len(keys) |-> landmarks[keys[n]].X.value]
\* the step multiplies every present position by the scale and changes
\* nothing else of the landmarks
ScalesOnce ==
  /\ DOMAIN landmarks' = DOMAIN landmarks
  /\ \A key \in DOMAIN landmarks :
       /\ landmarks'[key].obs = landmarks[key].obs
       /\ landmarks'[key].id = landmarks[key].id
       /\ landmarks'[key].X.has = landmarks[key].X.has
       /\ landmarks[key].X.has =>
            landmarks'[key].X.value = ScalePoint(landmarks[key].X.value, scale)

\* C28: after the triangulation pass the landmarks change only in the
\* step of --save-scaled-landmarks, once, by ScaleLandmarks, which leaves
\* absent positions absent and the observations and the set of landmarks
\* as they are; the unscaled file is written before that step.  So with
\* both options the first file holds the triangulated positions and the
\* second each of them times the scale.
C28_ScaledAfterUnscaledWritten ==
  /\ [][(PassDone /\ landmarks' # landmarks) =>
         (mainPc = "saveScaled" /\ mainPc' = "exit" /\ ScalesOnce)]_vars
  /\ [][unscaledMesh' # unscaledMesh =>
         /\ mainPc = "save"
         /\ landmarks' = landmarks
         /\ unscaledMesh'.written
         /\ unscaledMesh'.vertices = PresentPositions]_vars
  /\ []((mainPc = "saveScaled" /\ unscaledMesh.written) =>
         unscaledMesh.vertices = PresentPositions)
  /\ []((Exited /\ unscaledMesh.written /\ scaledMesh.written) =>
         /\ Len(scaledMesh.vertices) = Len(unscaledMesh.vertices)
         /\ scaledMesh.vertices = PresentPositions
         /\ \A n \in 1..Len(unscaledMesh.vertices) :
              scaledMesh.vertices[n]
                = ScalePoint(unscaledMesh.vertices[n], scale))

\* both files are written, for a scale that changes the positions and a
\* landmark without a position
C28_Witness ==
  /\ Exited
  /\ noRansac
  /\ unscaledMesh.written
  /\ scaledMesh.written
  /\ IsPositive(scale)
  /\ scale # Q(1, 1)
  /\ Len(unscaledMesh.vertices) >= 2
  /\ \E key \in DOMAIN landmarks : ~landmarks[key].X.has
  /\ \E n \in 1..Len(unscaledMesh.vertices) :
       /\ IsFin(unscaledMesh.vertices[n])
       /\ scaledMesh.vertices[n].k = "fin"
       /\ scaledMesh.vertices[n].num
            # unscaledMesh.vertices[n].v * scaledMesh.vertices[n].den

====
